---- MODULE Spec2Model ----
(***************************************************************************)
(* Model of the btg_entity_exporter Blender addon: the entity template     *)
(* (entity.EntityTemplate), the per-object typed property store            *)
(* (entity.EntityProperty / entity.EntityDefinition), the reconciliation   *)
(* of objects against a reloaded template                                  *)
(* (utilities.refresh_class_definitions, reset_class_definition) and the   *)
(* search operator (panels.SelectionPopup).                                *)
(*                                                                         *)
(* Host (Blender RNA) behaviour the Python code relies on:                 *)
(*  - Object.class_name is an EnumProperty whose items are computed from   *)
(*    the template keys: the object stores a position, reading it yields   *)
(*    the key at that position ("" when the position is past the end),     *)
(*    writing a name looks the name up in the current keys (an error when  *)
(*    absent) and then runs the update callback;                           *)
(*  - an exception raised inside an update callback is printed by the host *)
(*    and does not reach the statement that assigned the property;         *)
(*  - reading a vector property yields a view of the property's storage,   *)
(*    not a copy.                                                          *)
(***************************************************************************)
EXTENDS Integers, Sequences, FiniteSets, TLC

(***************************************************************************)
(* Bounds of the model.                                                    *)
(***************************************************************************)
NumObjects == 2
MaxInt == 1

(***************************************************************************)
(* JSON values, as json.load produces them: strings, numbers, arrays and   *)
(* objects.  An object is a sequence of <<key, value>> pairs in insertion  *)
(* order with unique keys (a Python dict).  Every value has the same       *)
(* record shape.                                                           *)
(***************************************************************************)
Str(s) == [k |-> "str", s |-> s, n |-> 0, a |-> <<>>]
Num(n) == [k |-> "num", s |-> "", n |-> n, a |-> <<>>]
\* a float that is no integer: n + f * 1e-9, with 0 < f < 1e9 (kept where an
\* array keeps its elements)
Flt(n, f) == [k |-> "num", s |-> "", n |-> n, a |-> <<f>>]
\* a number in units of 1e-9
Nano(v) == v.n * 1000000000 + (IF v.a = <<>> THEN 0 ELSE v.a[1])
Arr(a) == [k |-> "arr", s |-> "", n |-> 0, a |-> a]
Obj(pairs) == [k |-> "obj", s |-> "", n |-> 0, a |-> pairs]

IsObj(v) == v.k = "obj"
IsStr(v) == v.k = "str"

\* dict.keys()
Keys(d) == [i \in 1..Len(d.a) |-> d.a[i][1]]
\* key in dict
HasKey(d, key) == \E i \in 1..Len(d.a) : d.a[i][1] = key
\* dict[key], for a key the dict has
Get(d, key) == d.a[CHOOSE i \in 1..Len(d.a) : d.a[i][1] = key][2]
\* dict.get(key, default)
GetOr(d, key, default) == IF HasKey(d, key) THEN Get(d, key) ELSE default
\* dict[key] = value: in place when the key exists, appended otherwise
DictSet(d, key, value) ==
    IF HasKey(d, key)
    THEN Obj([i \in 1..Len(d.a) |->
                 IF d.a[i][1] = key THEN <<key, value>> ELSE d.a[i]])
    ELSE Obj(Append(d.a, <<key, value>>))

RECURSIVE MergeFrom(_, _, _)
MergeFrom(d, e, i) ==
    IF i > Len(e.a) THEN d
    ELSE MergeFrom(DictSet(d, e.a[i][1], e.a[i][2]), e, i + 1)
\* d | e
DictMerge(d, e) == MergeFrom(d, e, 1)

\* position of x in sequence s, 0 when absent
IndexOf(s, x) ==
    IF \E i \in 1..Len(s) : s[i] = x
    THEN CHOOSE i \in 1..Len(s) : s[i] = x /\ \A j \in 1..(i - 1) : s[j] # x
    ELSE 0

(***************************************************************************)
(* json.dumps / json.loads: a JSON text is a sequence of tokens.           *)
(***************************************************************************)
Tok(t, s, n) == [t |-> t, s |-> s, n |-> n]
Punct(t) == Tok(t, "", 0)

RECURSIVE Dumps(_)
RECURSIVE DumpItems(_, _)
RECURSIVE DumpMembers(_, _)
DumpItems(a, i) ==
    IF i > Len(a) THEN <<>>
    ELSE (IF i > 1 THEN <<Punct(",")>> ELSE <<>>) \o Dumps(a[i]) \o DumpItems(a, i + 1)
DumpMembers(a, i) ==
    IF i > Len(a) THEN <<>>
    ELSE (IF i > 1 THEN <<Punct(",")>> ELSE <<>>)
         \o <<Tok("str", a[i][1], 0), Punct(":")>> \o Dumps(a[i][2])
         \o DumpMembers(a, i + 1)
Dumps(v) ==
    CASE v.k = "str" -> <<Tok("str", v.s, 0)>>
      [] v.k = "num" -> <<Tok("num", "", v.n)>>
      [] v.k = "arr" -> <<Punct("[")>> \o DumpItems(v.a, 1) \o <<Punct("]")>>
      [] v.k = "obj" -> <<Punct("{")>> \o DumpMembers(v.a, 1) \o <<Punct("}")>>

\* The parser returns [v |-> value, i |-> position after the value].
RECURSIVE ParseValue(_, _)
RECURSIVE ParseItems(_, _, _)
RECURSIVE ParseMembers(_, _, _)
ParseItems(toks, i, acc) ==
    IF toks[i].t = "]" THEN [v |-> Arr(acc), i |-> i + 1]
    ELSE LET j == IF toks[i].t = "," THEN i + 1 ELSE i
             r == ParseValue(toks, j)
         IN  ParseItems(toks, r.i, Append(acc, r.v))
ParseMembers(toks, i, acc) ==
    IF toks[i].t = "}" THEN [v |-> acc, i |-> i + 1]
    ELSE LET j == IF toks[i].t = "," THEN i + 1 ELSE i
             r == ParseValue(toks, j + 2)
         IN  ParseMembers(toks, r.i, DictSet(acc, toks[j].s, r.v))
ParseValue(toks, i) ==
    CASE toks[i].t = "str" -> [v |-> Str(toks[i].s), i |-> i + 1]
      [] toks[i].t = "num" -> [v |-> Num(toks[i].n), i |-> i + 1]
      [] toks[i].t = "[" -> ParseItems(toks, i + 1, <<>>)
      [] toks[i].t = "{" -> ParseMembers(toks, i + 1, Obj(<<>>))
Loads(toks) == ParseValue(toks, 1).v

(***************************************************************************)
(* The entity template files the user can point the addon at.  A source is *)
(* what open + json.load make of the file: a JSON value, or a failure.     *)
(***************************************************************************)
VarDef(type, default, desc) ==
    Obj(<<<<"type", Str(type)>>, <<"default", default>>, <<"description", Str(desc)>>>>)
VarDefNoDesc(type, default) ==
    Obj(<<<<"type", Str(type)>>, <<"default", default>>>>)
EnumDef(default, options, desc) ==
    Obj(<<<<"type", Str("enum")>>, <<"default", Str(default)>>,
          <<"description", Str(desc)>>, <<"options", Arr(options)>>>>)
ClassDef(uid, vars) == Obj(<<<<"uid", Str(uid)>>, <<"variables", Obj(vars)>>>>)
Vec(x, y, z) == Arr(<<Num(x), Num(y), Num(z)>>)

ClassA == ClassDef("a1", <<<<"hp", VarDef("int", Num(1), "hit points")>>,
                           <<"tag", VarDef("String", Str("s0"), "label")>>>>)
ClassB == ClassDef("b1", <<<<"hp", VarDef("int", Num(0), "hit points")>>>>)
\* A with its variables reordered and hp retyped
ClassARetyped == ClassDef("a1", <<<<"tag", VarDef("String", Str("s1"), "label")>>,
                                  <<"hp", VarDef("String", Str("s1"), "hit points")>>>>)
\* A reordered, hp retyped, and its first variable without a description
ClassANoDesc == ClassDef("a1", <<<<"tag", VarDefNoDesc("String", Str("s0"))>>,
                                 <<"hp", VarDef("String", Str("s1"), "hit points")>>>>)
\* B without a variables mapping
ClassBNoVars == Obj(<<<<"uid", Str("b1")>>>>)
ClassAEnum == ClassDef("a1", <<<<"mode", EnumDef("x", <<Str("x"), Str("y")>>, "mode")>>,
                               <<"hp", VarDef("int", Num(1), "hit points")>>>>)
\* A with other options for mode
ClassAEnumOptions == ClassDef("a1", <<<<"mode", EnumDef("y", <<Str("y"), Str("z")>>, "mode")>>,
                                      <<"hp", VarDef("int", Num(1), "hit points")>>>>)
ClassAVec == ClassDef("a1", <<<<"pos", VarDef("Vector3", Vec(0, 0, 0), "position")>>,
                              <<"hp", VarDef("int", Num(1), "hit points")>>>>)

DocBase == Obj(<<<<"A", ClassA>>, <<"B", ClassB>>>>)
DocSwapped == Obj(<<<<"B", ClassB>>, <<"A", ClassARetyped>>>>)
DocOnlyB == Obj(<<<<"B", ClassB>>>>)
DocNoDesc == Obj(<<<<"A", ClassANoDesc>>, <<"B", ClassB>>>>)
DocWithNone == Obj(<<<<"B", ClassB>>, <<"None", ClassA>>>>)
DocEnum == Obj(<<<<"B", ClassB>>, <<"A", ClassAEnum>>>>)
DocEnumOptions == Obj(<<<<"B", ClassB>>, <<"A", ClassAEnumOptions>>>>)
\* B has no variables mapping
DocVec == Obj(<<<<"A", ClassAVec>>, <<"B", ClassBNoVars>>>>)
DocList == Arr(<<Str("A")>>)

\* ok: open succeeded; parsed: json.load succeeded; doc: the value json.load returned
Source(ok, parsed, doc) == [ok |-> ok, parsed |-> parsed, doc |-> doc]
SourceNames == {"base", "swapped", "onlyB", "nodesc", "withNone", "enum", "options",
                "vec", "list", "unreadable", "malformed"}
SourceOf(name) ==
    CASE name = "base" -> Source(TRUE, TRUE, DocBase)
      [] name = "swapped" -> Source(TRUE, TRUE, DocSwapped)
      [] name = "onlyB" -> Source(TRUE, TRUE, DocOnlyB)
      [] name = "nodesc" -> Source(TRUE, TRUE, DocNoDesc)
      [] name = "withNone" -> Source(TRUE, TRUE, DocWithNone)
      [] name = "enum" -> Source(TRUE, TRUE, DocEnum)
      [] name = "options" -> Source(TRUE, TRUE, DocEnumOptions)
      [] name = "vec" -> Source(TRUE, TRUE, DocVec)
      [] name = "list" -> Source(TRUE, TRUE, DocList)
      [] name = "unreadable" -> Source(FALSE, FALSE, Obj(<<>>))
      [] name = "malformed" -> Source(TRUE, FALSE, Obj(<<>>))

(***************************************************************************)
(* entity.EntityProperty: one typed value.  Every property carries all     *)
(* payload slots; m_type names the slot in use.                            *)
(***************************************************************************)
PropTypes_INT == "m_int"
PropTypes_FLOAT == "m_float"
PropTypes_STRING == "m_string"
PropTypes_BOOL == "m_bool"
PropTypes_INT_VECTOR == "m_int_vector"
PropTypes_FLOAT_VECTOR == "m_float_vector"
PropTypes_ENUM == "m_emum"

\* the payload slots EntityProperty declares
PayloadSlots == {"m_int", "m_float", "m_string", "m_bool", "m_int_vector",
                 "m_float_vector", "m_enum"}
VectorSlots == {"m_int_vector", "m_float_vector"}

\* the template's initial text and the default of m_enum_items
DefaultTemplateStr == Dumps(Obj(<<<<"None", Str("")>>>>))

\* a property as m_properties.add() creates it, before init
NewProperty ==
    [name |-> "", description |-> "", godot_type |-> "", m_type |-> "m_int",
     m_int |-> Num(0), m_float |-> Num(0), m_string |-> Str(""), m_bool |-> Num(0),
     m_int_vector |-> Vec(0, 0, 0), m_float_vector |-> Vec(0, 0, 0),
     m_enum |-> 0, m_enum_items |-> DefaultTemplateStr]

StrOf(v) == IF v.k = "str" THEN v.s ELSE ToString(v.n)

\* EntityProperty.get_enum_items: the allowed identifiers, in order
get_enum_items(p) ==
    LET items == Loads(p.m_enum_items)
    IN  IF items.k = "obj" THEN Keys(items)
        ELSE [i \in 1..Len(items.a) |-> StrOf(items.a[i])]

\* what the host accepts when a payload slot is assigned
SlotAccepts(p, slot, value) ==
    CASE slot \in {"m_int", "m_float", "m_bool"} -> value.k = "num"
      [] slot = "m_string" -> value.k = "str"
      [] slot \in VectorSlots -> value.k = "arr"
      [] slot = "m_enum" -> value.k = "str" /\ IndexOf(get_enum_items(p), value.s) > 0
      [] OTHER -> FALSE

\* setattr(p, slot, value) for a slot the host accepts the value for
SetSlot(p, slot, value) ==
    IF slot = "m_enum"
    THEN [p EXCEPT !.m_enum = IndexOf(get_enum_items(p), value.s) - 1]
    ELSE [p EXCEPT ![slot] = value]

\* getattr(p, slot) for a declared slot
GetSlot(p, slot) ==
    IF slot = "m_enum"
    THEN (IF p.m_enum + 1 <= Len(get_enum_items(p))
          THEN Str(get_enum_items(p)[p.m_enum + 1]) ELSE Str(""))
    ELSE p[slot]

\* the match statement of EntityProperty.init: the slot written for a type
SlotOfType(type) ==
    CASE type = "bool" -> "m_bool"
      [] type = "int" -> "m_int"
      [] type = "float" -> "m_float"
      [] type \in {"Vector3", "Vector2"} -> "m_float_vector"
      [] type \in {"Vector3i", "Vector2i"} -> "m_int_vector"
      [] type = "enum" -> "m_enum"
      [] OTHER -> "m_string"
TagOfType(type) ==
    CASE type = "bool" -> PropTypes_BOOL
      [] type = "int" -> PropTypes_INT
      [] type = "float" -> PropTypes_FLOAT
      [] type \in {"Vector3", "Vector2"} -> PropTypes_FLOAT_VECTOR
      [] type \in {"Vector3i", "Vector2i"} -> PropTypes_INT_VECTOR
      [] type = "enum" -> PropTypes_ENUM
      [] OTHER -> PropTypes_STRING

\* EntityProperty.init.  [p |-> the property afterwards, err |-> it raised]
PropInit(p0, name, value, type, description, items) ==
    LET p1 == [p0 EXCEPT !.name = name, !.godot_type = type, !.description = description]
        p2 == IF type = "enum" THEN [p1 EXCEPT !.m_enum_items = Dumps(items)] ELSE p1
        slot == SlotOfType(type)
    IN  IF SlotAccepts(p2, slot, value)
        THEN [p |-> [SetSlot(p2, slot, value) EXCEPT !.m_type = TagOfType(type)],
              err |-> FALSE]
        ELSE [p |-> p2, err |-> TRUE]

\* the value property: getattr(self, self.m_type) raises when m_type names no attribute
ValueRaises(p) == p.m_type \notin PayloadSlots
PropValue(p) == GetSlot(p, p.m_type)

\* the value setter: setattr(self, self.m_type, val).  [p, err]
SetValue(p, val) ==
    IF ~ValueRaises(p) /\ SlotAccepts(p, p.m_type, val)
    THEN [p |-> SetSlot(p, p.m_type, val), err |-> FALSE]
    ELSE [p |-> p, err |-> TRUE]

(***************************************************************************)
(* entity.EntityDefinition: the ordered properties of one object.          *)
(***************************************************************************)
\* EntityDefinition.get_properties raises when reading a value raises
GetPropertiesRaises(props) == \E i \in 1..Len(props) : ValueRaises(props[i])

\* get_properties()[name], for a name it has: the last property of that name.
\* idx is the position of the property in the collection.
OldProp(props, name) ==
    LET i == CHOOSE i \in 1..Len(props) :
                 /\ props[i].name = name
                 /\ \A j \in (i + 1)..Len(props) : props[j].name # name
    IN  [type |-> props[i].godot_type, value |-> PropValue(props[i]),
         slot |-> props[i].m_type, idx |-> i]
InProperties(props, name) == \E i \in 1..Len(props) : props[i].name = name

(***************************************************************************)
(* State.                                                                  *)
(*  m_template      EntityTemplate.m_template, the in-memory dict          *)
(*  m_template_str  EntityTemplate.m_template_str, saved with the file     *)
(*  objects         scene.objects: per object the stored position of       *)
(*                  class_name, class_name_backup, class_definition and    *)
(*                  the selection flag                                     *)
(*  active          view_layer.objects.active (0: none)                    *)
(*  last            the last operation: its kind, inputs, outcome and the  *)
(*                  state it started from                                  *)
(***************************************************************************)
VARIABLES m_template, m_template_str, objects, active, last,
          loaded, names, btg_file, compared, entity_property, downgraded

vars == <<m_template, m_template_str, objects, active, last, loaded, names, btg_file,
          compared, entity_property, downgraded>>
\* loaded: the template the last successful read passed to reset (history)
\* names: Object.name of every object; btg_file: the text of the file at
\* scene.btg_write_path
\* compared: the last call of SelectionPopup.compare made on its own, with
\* its arguments and what it returned
\* entity_property: one EntityProperty taken on its own, with the last call
\* made on it, the value passed and whether the call raised
\* downgraded: per object, the class a reload found removed and took from
\* it, "" once the user has given the object a class again (history)
export_vars == <<names, btg_file, compared, entity_property, downgraded>>
other_vars == <<names, btg_file, compared, entity_property>>

ObjectIds == 1..NumObjects

\* reading Object.class_name: the template key at the stored position
ClassNameAt(idx, tmpl) ==
    IF idx >= 0 /\ idx + 1 <= Len(Keys(tmpl)) THEN Keys(tmpl)[idx + 1] ELSE ""
ClassName(o, tmpl) == ClassNameAt(o.class_name, tmpl)

(***************************************************************************)
(* __init__.reset_class_definition, the update callback of class_name.     *)
(***************************************************************************)
\* the loop over class_def['variables'].items(), from variable i on
RECURSIVE BuildProperties(_, _, _)
BuildProperties(variables, i, acc) ==
    IF i > Len(variables.a) THEN [props |-> acc, err |-> FALSE]
    ELSE LET var_name == variables.a[i][1]
             var_def == variables.a[i][2]
         IN  IF ~(IsObj(var_def) /\ HasKey(var_def, "type") /\ HasKey(var_def, "default")
                  /\ HasKey(var_def, "description"))
             THEN [props |-> acc, err |-> TRUE]
             ELSE LET r == PropInit(NewProperty, var_name, Get(var_def, "default"),
                                    Get(var_def, "type").s,
                                    GetOr(var_def, "description", Str("")).s,
                                    GetOr(var_def, "options", Arr(<<>>)))
                  IN  IF r.err THEN [props |-> Append(acc, r.p), err |-> TRUE]
                      ELSE BuildProperties(variables, i + 1, Append(acc, r.p))

\* a callback that returns for 'None' before it clears the properties
reset_class_definition_ReturnsFirst(o, tmpl) ==
    LET name == ClassName(o, tmpl)
        cleared == [o EXCEPT !.class_definition = <<>>, !.class_name_backup = name]
    IN  IF name = "None" THEN [o |-> o, err |-> FALSE]
        ELSE IF ~HasKey(tmpl, name) THEN [o |-> cleared, err |-> TRUE]
        ELSE LET class_def == Get(tmpl, name)
             IN  IF ~(IsObj(class_def) /\ HasKey(class_def, "variables")
                      /\ IsObj(Get(class_def, "variables")))
                 THEN [o |-> cleared, err |-> TRUE]
                 ELSE LET r == BuildProperties(Get(class_def, "variables"), 1, <<>>)
                      IN  [o |-> [cleared EXCEPT !.class_definition = r.props],
                           err |-> r.err]
\* [o |-> the object afterwards, err |-> the callback raised]
reset_class_definition(o, tmpl) ==
    LET name == ClassName(o, tmpl)
        cleared == [o EXCEPT !.class_definition = <<>>, !.class_name_backup = name]
    IN  IF name = "None" THEN [o |-> cleared, err |-> FALSE]
        ELSE IF ~HasKey(tmpl, name) THEN [o |-> cleared, err |-> TRUE]
        ELSE LET class_def == Get(tmpl, name)
             IN  IF ~(IsObj(class_def) /\ HasKey(class_def, "variables")
                      /\ IsObj(Get(class_def, "variables")))
                 THEN [o |-> cleared, err |-> TRUE]
                 ELSE LET r == BuildProperties(Get(class_def, "variables"), 1, <<>>)
                      IN  [o |-> [cleared EXCEPT !.class_definition = r.props],
                           err |-> r.err]

\* object.class_name = name, for a name among the template keys: the position is
\* stored and the update callback runs; what the callback raises stays in it
AssignClassName(o, name, tmpl) ==
    reset_class_definition([o EXCEPT !.class_name = IndexOf(Keys(tmpl), name) - 1], tmpl)

(***************************************************************************)
(* utilities.refresh_class_definitions.                                    *)
(***************************************************************************)
\* old_props[name]['value'] read after the collection was rebuilt.  A scalar was
\* copied by get_properties; a vector is a view of a property that clear() freed:
\* it shows the old data or the property now stored at that position.
CarriedValue(old, props, stale) ==
    IF old.slot \in VectorSlots /\ stale
    THEN (IF old.idx <= Len(props) THEN props[old.idx][old.slot] ELSE NewProperty[old.slot])
    ELSE old.value

\* the refill loop, from property i on.  [props, raised]
RECURSIVE RefillProperties(_, _, _, _)
RefillProperties(props, old_props, i, stale) ==
    IF i > Len(props) THEN [props |-> props, raised |-> FALSE]
    ELSE LET prop == props[i]
         IN  IF InProperties(old_props, prop.name)
                /\ prop.godot_type = OldProp(old_props, prop.name).type
             THEN LET v == CarriedValue(OldProp(old_props, prop.name), props, stale)
                  IN  IF ValueRaises(prop) \/ ~SlotAccepts(prop, prop.m_type, v)
                      THEN [props |-> props, raised |-> TRUE]
                      ELSE RefillProperties([props EXCEPT ![i] = SetSlot(prop, prop.m_type, v)],
                                            old_props, i + 1, stale)
             ELSE RefillProperties(props, old_props, i + 1, stale)

ClassRemoved_ByPosition(o, tmpl) == ~HasKey(tmpl, ClassName(o, tmpl))
\* object.class_name_backup not in scene.entity_template
ClassRemoved(o, tmpl) == ~HasKey(tmpl, o.class_name_backup)

\* the end of an iteration: the properties rebuilt by the callback (r) are
\* refilled (f)
RefilledObject(r, f) ==
    [o |-> [r.o EXCEPT !.class_definition = f.props], raised |-> f.raised, cb_err |-> r.err]
\* the refill of the properties the callback rebuilt
RefillRebuilt(r, old_props, stale) ==
    RefilledObject(r, RefillProperties(r.o.class_definition, old_props, 1, stale))
\* the class was removed: class_name = 'None', then clear()
ClearedObject(r) ==
    [o |-> [r.o EXCEPT !.class_definition = <<>>], raised |-> FALSE, cb_err |-> r.err]

\* an iteration that, for a removed class, clears the properties and leaves
\* class_name as it is
RefreshObject_ClearsOnly(o, tmpl, stale) ==
    IF ClassName(o, tmpl) = "None"
    THEN [o |-> o, raised |-> FALSE, cb_err |-> FALSE]
    ELSE IF ClassRemoved(o, tmpl)
    THEN [o |-> [o EXCEPT !.class_definition = <<>>], raised |-> FALSE, cb_err |-> FALSE]
    ELSE IF GetPropertiesRaises(o.class_definition)
    THEN [o |-> o, raised |-> TRUE, cb_err |-> FALSE]
    ELSE RefillRebuilt(AssignClassName(o, o.class_name_backup, tmpl),
                       o.class_definition, stale)
\* an iteration that rebuilds the class the stored position names, without
\* the assignment of class_name_backup to class_name
RefreshObject_KeepsPosition(o, tmpl, stale) ==
    IF ClassName(o, tmpl) = "None"
    THEN [o |-> o, raised |-> FALSE, cb_err |-> FALSE]
    ELSE IF ClassRemoved(o, tmpl)
    THEN ClearedObject(AssignClassName(o, "None", tmpl))
    ELSE IF GetPropertiesRaises(o.class_definition)
    THEN [o |-> o, raised |-> TRUE, cb_err |-> FALSE]
    ELSE RefillRebuilt(reset_class_definition(o, tmpl), o.class_definition, stale)
\* one iteration of the loop over scene.objects.  [o, raised, cb_err]
RefreshObject(o, tmpl, stale) ==
    IF ClassName(o, tmpl) = "None"
    THEN [o |-> o, raised |-> FALSE, cb_err |-> FALSE]
    ELSE IF ClassRemoved(o, tmpl)
    THEN ClearedObject(AssignClassName(o, "None", tmpl))
    ELSE IF GetPropertiesRaises(o.class_definition)
    THEN [o |-> o, raised |-> TRUE, cb_err |-> FALSE]
    ELSE RefillRebuilt(AssignClassName(o, o.class_name_backup, tmpl),
                       o.class_definition, stale)

\* the loop over scene.objects, from the outcome res[i] of each iteration: it
\* stops at the first object that raises
RefreshLoop(objs, tmpl, res) ==
    LET reached(i) == \A j \in 1..(i - 1) : ~res[j].raised
    IN  [objects |-> [i \in ObjectIds |-> IF reached(i) THEN res[i].o ELSE objs[i]],
         raised |-> \E i \in ObjectIds : res[i].raised,
         cb_err |-> \E i \in ObjectIds : reached(i) /\ res[i].cb_err,
         removed |-> {i \in ObjectIds : /\ reached(i)
                                        /\ ClassName(objs[i], tmpl) # "None"
                                        /\ ClassRemoved(objs[i], tmpl)},
         moved |-> {i \in ObjectIds : /\ reached(i)
                                      /\ ClassName(objs[i], tmpl) # "None"
                                      /\ ~ClassRemoved(objs[i], tmpl)
                                      /\ objs[i].class_name + 1 #
                                             IndexOf(Keys(tmpl), objs[i].class_name_backup)}]
refresh_class_definitions(objs, tmpl, stale) ==
    RefreshLoop(objs, tmpl, [i \in ObjectIds |-> RefreshObject(objs[i], tmpl, stale)])

(***************************************************************************)
(* entity.EntityTemplate.                                                  *)
(***************************************************************************)
\* a reset that writes the snapshot with its classes in the opposite order
EntityTemplate_reset_ReversedSnapshot(template) ==
    [m_template |-> DictMerge(Obj(<<>>), template),
     m_template_str |-> Dumps(Obj([i \in 1..Len(template.a) |->
                                      template.a[Len(template.a) + 1 - i]]))]
\* EntityTemplate.reset(template): [m_template, m_template_str]
EntityTemplate_reset(template) ==
    [m_template |-> DictMerge(Obj(<<>>), template), m_template_str |-> Dumps(template)]
\* EntityTemplate.init_dict(): the new m_template
EntityTemplate_init_dict(template_str) == DictMerge(Obj(<<>>), Loads(template_str))

\* the argument read_template_json passes to reset
NoneFirst(doc) == DictMerge(Obj(<<<<"None", Str("")>>>>), doc)
\* open or json.load raised, or the dict merge did (the top level is no object)
LoadFails(src) == ~src.ok \/ ~src.parsed \/ ~IsObj(src.doc)
\* a reader that empties the template before it opens the file
read_template_json_ClearsFirst(src, template, template_str) ==
    IF LoadFails(src)
    THEN [raised |-> TRUE, m_template |-> Obj(<<>>), m_template_str |-> template_str]
    ELSE LET t == EntityTemplate_reset(NoneFirst(src.doc))
         IN  [raised |-> FALSE, m_template |-> t.m_template,
              m_template_str |-> t.m_template_str]
\* EntityTemplateReader.read_template_json, from a template and its snapshot:
\* [raised, m_template, m_template_str]
read_template_json(src, template, template_str) ==
    IF LoadFails(src)
    THEN [raised |-> TRUE, m_template |-> template, m_template_str |-> template_str]
    ELSE LET t == EntityTemplate_reset(NoneFirst(src.doc))
         IN  [raised |-> FALSE, m_template |-> t.m_template,
              m_template_str |-> t.m_template_str]

\* removed: the objects whose class the reload found removed
\* moved: the objects whose class the reload found at another position
\* cleared: the objects whose properties the class assignment emptied
\* matching: the objects that satisfy the predicate of the search that ran
Op(op, result, obj, arg) ==
    [op |-> op, result |-> result, obj |-> obj, arg |-> arg, removed |-> {},
     moved |-> {}, cleared |-> {}, matching |-> {}]

(***************************************************************************)
(* Object names.  A name is a Python str; Pieces gives its characters,     *)
(* grouped in runs without a dot, and Join the str of such a sequence.     *)
(***************************************************************************)
\* the name Blender gives the i-th copy of an object
DotName(i) == CASE i = 1 -> "Goblin.001" [] i = 2 -> "Goblin.002" [] OTHER -> "Goblin.003"
\* a name the user can type
UnderName(i) == CASE i = 1 -> "Goblin_001" [] i = 2 -> "Goblin_002" [] OTHER -> "Goblin_003"
Number(i) == CASE i = 1 -> "001" [] i = 2 -> "002" [] OTHER -> "003"
ObjectNames == {DotName(i) : i \in ObjectIds} \cup {UnderName(i) : i \in ObjectIds}
Pieces(name) ==
    IF \E i \in ObjectIds : name = DotName(i)
    THEN <<"Goblin", ".", Number(CHOOSE i \in ObjectIds : name = DotName(i))>>
    ELSE <<"Goblin", "_", Number(CHOOSE i \in ObjectIds : name = UnderName(i))>>
Join(pieces) == CHOOSE name \in ObjectNames : Pieces(name) = pieces
\* str.replace(old, new), old one character
str_replace(name, old, new) ==
    Join([k \in 1..Len(Pieces(name)) |->
             IF Pieces(name)[k] = old THEN new ELSE Pieces(name)[k]])

Init ==
    /\ loaded = Loads(DefaultTemplateStr)
    /\ names = [i \in ObjectIds |-> DotName(i)]
    /\ btg_file = <<>>
    /\ compared = [x |-> Num(0), y |-> Num(0), comp_type |-> "", result |-> ""]
    /\ entity_property = [p |-> NewProperty, op |-> "add", type |-> "", arg |-> Num(0),
                          raised |-> FALSE]
    /\ downgraded = [i \in ObjectIds |-> ""]
    /\ m_template = Obj(<<>>)
    /\ m_template_str = DefaultTemplateStr
    /\ objects = [i \in ObjectIds |->
                     [class_name |-> 0, class_name_backup |-> "",
                      class_definition |-> <<>>, selected |-> FALSE]]
    /\ active = 0
    /\ last = Op("init", "", 0, "")

(***************************************************************************)
(* operators.EntityTemplateReader.execute                                  *)
(***************************************************************************)
\* execute after read_template_json gave t, with r the outcome of the refresh
ReadTemplateEnd(t, r) ==
    /\ m_template' = t.m_template
    /\ m_template_str' = t.m_template_str
    /\ objects' = IF t.raised THEN objects ELSE r.objects
    /\ last' = IF t.raised THEN Op("read", "CANCELLED", 0, "ERROR")
                ELSE [Op("read", IF r.raised THEN "RAISED" ELSE "FINISHED", 0,
                         IF r.raised THEN "" ELSE "INFO")
                         EXCEPT !.removed = r.removed, !.moved = r.moved]
    /\ loaded' = IF t.raised THEN loaded ELSE t.m_template
    /\ downgraded' = [i \in ObjectIds |->
                          IF ~t.raised /\ i \in r.removed THEN objects[i].class_name_backup
                          ELSE downgraded[i]]
    /\ UNCHANGED <<active, other_vars>>
ReadTemplateWith(t, stale) ==
    ReadTemplateEnd(t, refresh_class_definitions(objects, t.m_template, stale))
ReadTemplate(src, stale) ==
    ReadTemplateWith(read_template_json(src, m_template, m_template_str), stale)

(***************************************************************************)
(* The user picks a class for an object in the panel (Object.class_name,   *)
(* items = get_entity_list, update = reset_class_definition).              *)
(***************************************************************************)
SetClassName(i, name) ==
    /\ IndexOf(Keys(m_template), name) > 0
    /\ LET r == AssignClassName(objects[i], name, m_template)
       IN  /\ objects' = [objects EXCEPT ![i] = r.o]
           /\ last' = [Op("set_class", IF r.err THEN "CALLBACK_ERROR" ELSE "", i, name)
                          EXCEPT !.cleared = IF objects[i].class_definition # <<>>
                                                /\ r.o.class_definition = <<>>
                                             THEN {i} ELSE {}]
    /\ downgraded' = [downgraded EXCEPT ![i] = ""]
    /\ UNCHANGED <<m_template, m_template_str, active, loaded, other_vars>>

(***************************************************************************)
(* The user edits a property in the panel: BTGPanel.draw shows, for an     *)
(* object with a class, the slot string_ref names.                         *)
(***************************************************************************)
SlotValues(slot) ==
    CASE slot \in {"m_int", "m_float"} -> {Num(n) : n \in 0..MaxInt}
      [] slot = "m_string" -> {Str("s0"), Str("s1")}
      [] slot \in VectorSlots -> {Vec(0, 0, 0), Vec(1, 0, 0)}
      [] OTHER -> {}

\* an edit that writes the property of every object of the same class
SetPropertyValue_Shared(i, j, v) ==
    /\ ClassName(objects[i], m_template) \notin {"None", ""}
    /\ j \in 1..Len(objects[i].class_definition)
    /\ LET prop == objects[i].class_definition[j]
       IN  /\ v \in SlotValues(prop.m_type)
           /\ v # PropValue(prop)
           /\ objects' = [k \in ObjectIds |->
                              IF objects[k].class_name = objects[i].class_name
                                 /\ j \in 1..Len(objects[k].class_definition)
                              THEN [objects[k] EXCEPT !.class_definition[j] =
                                       SetSlot(objects[k].class_definition[j], prop.m_type, v)]
                              ELSE objects[k]]
    /\ last' = Op("set_value", "", i, "")
    /\ UNCHANGED <<m_template, m_template_str, active, loaded, export_vars>>

SetPropertyValue(i, j, v) ==
    /\ ClassName(objects[i], m_template) \notin {"None", ""}
    /\ j \in 1..Len(objects[i].class_definition)
    /\ LET prop == objects[i].class_definition[j]
       IN  /\ v \in SlotValues(prop.m_type)
           /\ v # PropValue(prop)
           /\ objects' = [objects EXCEPT ![i].class_definition[j] =
                                             SetSlot(prop, prop.m_type, v)]
    /\ last' = Op("set_value", "", i, "")
    /\ UNCHANGED <<m_template, m_template_str, active, loaded, export_vars>>

(***************************************************************************)
(* Blender is closed and the file opened again: saved data stays, the      *)
(* class attribute m_template starts empty; load_template is the load_post *)
(* handler.                                                                *)
(***************************************************************************)
Restart ==
    /\ m_template' = Obj(<<>>)
    /\ last' = Op("restart", "", 0, "")
    /\ UNCHANGED <<m_template_str, objects, active, loaded, export_vars>>

load_template ==
    /\ m_template' = EntityTemplate_init_dict(m_template_str)
    /\ last' = Op("load_template", "", 0, "")
    /\ UNCHANGED <<m_template_str, objects, active, loaded, export_vars>>

(***************************************************************************)
(* The user selects objects in the viewport.                               *)
(***************************************************************************)
SelectObject(i) ==
    /\ ~objects[i].selected
    /\ objects' = [objects EXCEPT ![i].selected = TRUE]
    /\ active' = i
    /\ last' = Op("select", "", i, "")
    /\ UNCHANGED <<m_template, m_template_str, loaded, export_vars>>

DeselectAll ==
    /\ \E i \in ObjectIds : objects[i].selected
    /\ objects' = [i \in ObjectIds |-> [objects[i] EXCEPT !.selected = FALSE]]
    /\ last' = Op("deselect", "", 0, "")
    /\ UNCHANGED <<m_template, m_template_str, active, loaded, export_vars>>

(***************************************************************************)
(* panels.SelectionPopup                                                   *)
(***************************************************************************)
Abs(n) == IF n < 0 THEN -n ELSE n
\* atol of close (delta = 1.0e-8) in units of 1e-9, and 1 / rtol of
\* numpy.allclose (rtol = 1.0e-5)
DeltaNano == 10
InverseRtol == 100000
\* numpy.isclose on two numbers in units of 1e-9: |x - y| <= atol + rtol * |y|
IsClose(x, y) == Abs(x - y) <= DeltaNano + (Abs(y) \div InverseRtol)
\* a scalar is broadcast against a vector
Elements(v, n) ==
    IF v.k = "arr" THEN [i \in 1..n |-> Nano(v.a[i])] ELSE [i \in 1..n |-> Nano(v)]
Width(x, y) == IF x.k = "arr" THEN Len(x.a) ELSE IF y.k = "arr" THEN Len(y.a) ELSE 1
\* SelectionPopup.close
close(x, y) ==
    IF IsStr(x) \/ IsStr(y) THEN x = y
    ELSE \A i \in 1..Width(x, y) :
             IsClose(Elements(x, Width(x, y))[i], Elements(y, Width(x, y))[i])

ComparisonTypes == {"<", "<=", "==", ">", ">="}
\* the place of a str among the strs of the model, in Python's order
Rank(str) ==
    CASE str = "" -> 0 [] str = "s0" -> 1 [] str = "s1" -> 2 [] str = "x" -> 3
      [] str = "y" -> 4 [] OTHER -> 5
\* what the ordering operators compare: two numbers or two strs
OrderKey(v) == IF v.k = "str" THEN Rank(v.s) ELSE Nano(v)
\* the ordering operators raise TypeError on a str against a number and on
\* vectors
CompareRaises(x, y, comp_type) ==
    /\ comp_type \in {"<", "<=", ">", ">="}
    /\ ~((x.k = "num" /\ y.k = "num") \/ (x.k = "str" /\ y.k = "str"))
\* SelectionPopup.compare, when it returns a bool; FALSE stands for None
compare(x, y, comp_type) ==
    CASE comp_type = "<" -> OrderKey(x) < OrderKey(y)
      [] comp_type = "<=" -> OrderKey(x) <= OrderKey(y)
      [] comp_type = "==" -> close(x, y)
      [] comp_type = ">" -> OrderKey(x) > OrderKey(y)
      [] comp_type = ">=" -> OrderKey(x) >= OrderKey(y)
      [] comp_type = "_" -> close(x, y)
      [] OTHER -> FALSE
\* what a call of SelectionPopup.compare gives: "True", "False", "None" when
\* no case matches, "TypeError" when the operator raises
CompareReturns(x, y, comp_type) ==
    IF CompareRaises(x, y, comp_type) THEN "TypeError"
    ELSE IF comp_type \notin ComparisonTypes \cup {"_"} THEN "None"
    ELSE IF compare(x, y, comp_type) THEN "True" ELSE "False"

\* a call of SelectionPopup.compare on its own
CompareCall(x, y, comp_type) ==
    /\ compared' = [x |-> x, y |-> y, comp_type |-> comp_type,
                    result |-> CompareReturns(x, y, comp_type)]
    /\ last' = Op("compare", CompareReturns(x, y, comp_type), 0, comp_type)
    /\ UNCHANGED <<m_template, m_template_str, objects, active, loaded, names, btg_file,
                   entity_property, downgraded>>

\* one iteration of the loop of the variable search.  [selected, raised]
SearchObject(o, tmpl, search_class, search_var_name, value, comp_type) ==
    IF ClassName(o, tmpl) # search_class THEN [selected |-> o.selected, raised |-> FALSE]
    ELSE IF GetPropertiesRaises(o.class_definition)
            \/ ~InProperties(o.class_definition, search_var_name)
    THEN [selected |-> o.selected, raised |-> TRUE]
    ELSE LET x == OldProp(o.class_definition, search_var_name).value
         IN  IF CompareRaises(x, value, comp_type)
             THEN [selected |-> o.selected, raised |-> TRUE]
             ELSE [selected |-> compare(x, value, comp_type), raised |-> FALSE]

\* context.selected_objects
SelectedObjects(objs) == {i \in ObjectIds : objs[i].selected}
FirstOf(S) == CHOOSE i \in S : \A j \in S : i <= j

\* The predicate of a search: by class, the object's class is the search class;
\* by variable value, it also has the variable and the comparison holds.  A
\* search by variable value for the class "None" is a search by class.
SearchPredicate(o, tmpl, search_class, search_type, search_var_name, value, comp_type) ==
    /\ ClassName(o, tmpl) = search_class
    /\ (search_type = "var_val" /\ search_class # "None") =>
           /\ InProperties(o.class_definition, search_var_name)
           /\ ~GetPropertiesRaises(o.class_definition)
           /\ ~CompareRaises(OldProp(o.class_definition, search_var_name).value, value,
                             comp_type)
           /\ compare(OldProp(o.class_definition, search_var_name).value, value, comp_type)

\* SelectionPopup.execute
SelectionPopup_execute(search_class, search_type, search_var_name, value, comp_type) ==
    IF search_type = "var_val" /\ search_class # "None" /\ search_var_name = ""
    THEN /\ last' = Op("search", "CANCELLED", 0, "No search variable selected.")
         /\ UNCHANGED <<m_template, m_template_str, objects, active, loaded, export_vars>>
    ELSE LET by_var == search_type = "var_val" /\ search_class # "None"
             res == [i \in ObjectIds |->
                        IF by_var
                        THEN SearchObject(objects[i], m_template, search_class,
                                          search_var_name, value, comp_type)
                        ELSE [selected |-> ClassName(objects[i], m_template) = search_class,
                              raised |-> FALSE]]
             reached(i) == \A j \in 1..i : ~res[j].raised
             raised == \E i \in ObjectIds : res[i].raised
             objs == [i \in ObjectIds |->
                         IF reached(i) THEN [objects[i] EXCEPT !.selected = res[i].selected]
                         ELSE objects[i]]
             sel == SelectedObjects(objs)
             matching == {i \in ObjectIds :
                             SearchPredicate(objects[i], m_template, search_class,
                                             search_type, search_var_name, value, comp_type)}
         IN  /\ objects' = objs
             /\ active' = IF ~raised /\ sel # {} /\ active \notin sel THEN FirstOf(sel)
                          ELSE active
             /\ last' = [Op("search", IF raised THEN "RAISED" ELSE "FINISHED", 0,
                            IF raised THEN ""
                            ELSE IF sel = {} THEN "No objects found."
                            ELSE "Objects selected!") EXCEPT !.matching = matching]
             /\ UNCHANGED <<m_template, m_template_str, loaded, export_vars>>

\* get_variable_search_list: [raised, keys]
get_variable_search_list(tmpl, search_class_name) ==
    IF ~HasKey(tmpl, search_class_name) THEN [raised |-> TRUE, keys |-> <<>>]
    ELSE LET search_class == Get(tmpl, search_class_name)
         IN  IF ~IsObj(search_class) \/ ~HasKey(search_class, "variables")
                \/ ~IsObj(Get(search_class, "variables"))
             THEN [raised |-> TRUE, keys |-> <<>>]
             ELSE [raised |-> FALSE, keys |-> Keys(Get(search_class, "variables"))]

\* Scene.search_class_name reads a template key, or "" when its position names none
SearchClasses == {"None", "A", "B", ""}
\* Scene.search_var_name reads a variable of the search class, or ""
SearchVarNames(tmpl, search_class) ==
    IF HasKey(tmpl, search_class) /\ IsObj(Get(tmpl, search_class))
       /\ HasKey(Get(tmpl, search_class), "variables")
    THEN {Keys(Get(Get(tmpl, search_class), "variables"))[i] :
              i \in 1..Len(Keys(Get(Get(tmpl, search_class), "variables")))} \cup {""}
    ELSE {""}

ClassNames == {"None", "A", "B"}
AllSlotValues == UNION {SlotValues(sl) : sl \in PayloadSlots}
\* a stale view only matters to an object that holds a vector
HoldsVector == \E i \in ObjectIds : \E j \in 1..Len(objects[i].class_definition) :
                   objects[i].class_definition[j].m_type \in VectorSlots
StaleChoices == IF HoldsVector THEN BOOLEAN ELSE {FALSE}

Read == \E src \in SourceNames, stale \in StaleChoices : ReadTemplate(SourceOf(src), stale)
PickClass == \E i \in ObjectIds, name \in ClassNames : SetClassName(i, name)
EditValue == \E i \in ObjectIds, j \in 1..2, v \in AllSlotValues : SetPropertyValue(i, j, v)

Next ==
    \/ Read
    \/ PickClass
    \/ EditValue
    \/ Restart
    \/ load_template

Spec == Init /\ [][Next]_vars

(***************************************************************************)
(* The search scenario: templates without failing loads, viewport          *)
(* selection and the search popup.                                         *)
(***************************************************************************)
SearchSources == {"base"}
SearchByClass ==
    \E c \in SearchClasses :
        /\ c \in {Keys(m_template)[i] : i \in 1..Len(Keys(m_template))} \cup {""}
        /\ SelectionPopup_execute(c, "class", "", Num(0), "==")
SearchByVariable ==
    \E c \in SearchClasses, v \in AllSlotValues, comp_type \in ComparisonTypes :
        /\ c \in {Keys(m_template)[i] : i \in 1..Len(Keys(m_template))} \cup {""}
        /\ \E var \in SearchVarNames(m_template, c) :
               SelectionPopup_execute(c, "var_val", var, v, comp_type)

SearchNext ==
    \/ \E src \in SearchSources : ReadTemplate(SourceOf(src), FALSE)
    \/ PickClass
    \/ EditValue
    \/ \E i \in ObjectIds : SelectObject(i)
    \/ DeselectAll
    \/ SearchByClass
    \/ SearchByVariable

SearchSpec == Init /\ [][SearchNext]_vars

(***************************************************************************)
(* operators.EntityImportWriter: the export to the file Godot imports.     *)
(***************************************************************************)
\* a write that fails after the file was opened leaves at most this many tokens
MaxPartial == 1

\* the value written for a property: a value that is no int, str, bool or float
\* (a vector) is written as the text of its list of elements
ExportValue(p) ==
    IF PropValue(p).k = "arr"
    THEN Str(ToString([k \in 1..Len(PropValue(p).a) |-> Nano(PropValue(p).a[k])]))
    ELSE PropValue(p)

\* the inner dict comprehension over object.class_definition
RECURSIVE ExportVariables(_, _, _)
ExportVariables(props, j, acc) ==
    IF j > Len(props) THEN acc
    ELSE ExportVariables(props, j + 1,
             DictSet(acc, props[j].name,
                     Obj(<<<<"type", Str(props[j].godot_type)>>,
                           <<"value", ExportValue(props[j])>>>>)))

\* the entry of one object whose class is class_name
ExportEntry(o, tmpl, class_name) ==
    Obj(<<<<"class", Str(class_name)>>,
          <<"uid", GetOr(Get(tmpl, class_name), "uid", Str(""))>>,
          <<"variables", ExportVariables(o.class_definition, 1, Obj(<<>>))>>>>)
\* building the entry raises: the class is no key of the template, its
\* definition has no get(), or reading a value raises
EntryRaises(o, tmpl, class_name) ==
    \/ ~HasKey(tmpl, class_name)
    \/ ~IsObj(Get(tmpl, class_name))
    \/ GetPropertiesRaises(o.class_definition)

\* the dict comprehension over scene.objects, from object i on
RECURSIVE BuildExport(_, _, _, _, _)
BuildExport(objs, nms, tmpl, i, acc) ==
    IF i > Len(objs) THEN acc
    ELSE IF ClassName(objs[i], tmpl) = "None" THEN BuildExport(objs, nms, tmpl, i + 1, acc)
    ELSE BuildExport(objs, nms, tmpl, i + 1,
             DictSet(acc, str_replace(nms[i], ".", "_"),
                     ExportEntry(objs[i], tmpl, ClassName(objs[i], tmpl))))
ExportRaises(objs, tmpl) ==
    \E i \in 1..Len(objs) :
        /\ ClassName(objs[i], tmpl) # "None"
        /\ EntryRaises(objs[i], tmpl, ClassName(objs[i], tmpl))

\* the try block: open(path, 'w+') truncates the file, json.dump writes the text
\* piece by piece.  outcome: "written", "open_fails" or "write_fails" after k tokens
WriteFile(text, outcome, k) ==
    /\ outcome = "write_fails" => k < Len(text)
    /\ btg_file' = CASE outcome = "written" -> text
                     [] outcome = "open_fails" -> btg_file
                     [] outcome = "write_fails" -> SubSeq(text, 1, k)
    /\ last' = IF outcome = "written" THEN Op("write", "FINISHED", 0, "INFO")
               ELSE Op("write", "CANCELLED", 0, "ERROR")

\* an export that sets class_name_backup of every object to the class it reads as
EntityImportWriter_execute_SetsBackup(outcome, k) ==
    /\ outcome # "write_fails" => k = 0
    /\ IF ExportRaises(objects, m_template)
       THEN /\ outcome = "written"
            /\ last' = Op("write", "RAISED", 0, "")
            /\ UNCHANGED btg_file
       ELSE WriteFile(Dumps(BuildExport(objects, names, m_template, 1, Obj(<<>>))),
                      outcome, k)
    /\ objects' = [i \in ObjectIds |->
                       [objects[i] EXCEPT !.class_name_backup =
                                              ClassName(objects[i], m_template)]]
    /\ UNCHANGED <<m_template, m_template_str, active, loaded, names, compared,
                   entity_property, downgraded>>
\* EntityImportWriter.execute
EntityImportWriter_execute(outcome, k) ==
    /\ outcome # "write_fails" => k = 0
    /\ IF ExportRaises(objects, m_template)
       THEN /\ outcome = "written"
            /\ last' = Op("write", "RAISED", 0, "")
            /\ UNCHANGED btg_file
       ELSE WriteFile(Dumps(BuildExport(objects, names, m_template, 1, Obj(<<>>))),
                      outcome, k)
    /\ UNCHANGED <<m_template, m_template_str, objects, active, loaded, names, compared,
                   entity_property, downgraded>>

\* the user renames an object; the host keeps names unique
Rename(i, name) ==
    /\ \A j \in ObjectIds : names[j] # name
    /\ names' = [names EXCEPT ![i] = name]
    /\ last' = Op("rename", "", i, name)
    /\ UNCHANGED <<m_template, m_template_str, objects, active, loaded, btg_file,
                   compared, entity_property, downgraded>>

(***************************************************************************)
(* The export scenario.                                                    *)
(***************************************************************************)
ExportSources == {"base", "enum"}
WriteOutcomes == {"written", "open_fails", "write_fails"}
Write == \E outcome \in WriteOutcomes, k \in 0..MaxPartial : EntityImportWriter_execute(outcome, k)

ExportNext ==
    \/ \E src \in ExportSources : ReadTemplate(SourceOf(src), FALSE)
    \/ PickClass
    \/ \E v \in AllSlotValues : SetPropertyValue(1, 1, v)
    \/ \E name \in ObjectNames : Rename(1, name)
    \/ Write

ExportSpec == Init /\ [][ExportNext]_vars

(***************************************************************************)
(* Search and export in one scene: a template, classes and values of the   *)
(* objects, viewport selection, the search popup and json.write.           *)
(***************************************************************************)
\* searches for a value equal to a default of the template
SearchForDefault ==
    \E c \in SearchClasses, v \in {Num(1), Str("s0")} :
        /\ c \in {Keys(m_template)[i] : i \in 1..Len(Keys(m_template))} \cup {""}
        /\ \E var \in SearchVarNames(m_template, c) :
               SelectionPopup_execute(c, "var_val", var, v, "==")
SearchExportNext ==
    \/ \E src \in SearchSources : ReadTemplate(SourceOf(src), FALSE)
    \/ PickClass
    \/ \E v \in AllSlotValues : SetPropertyValue(1, 1, v)
    \/ \E i \in ObjectIds : SelectObject(i)
    \/ SearchByClass
    \/ SearchForDefault
    \/ Write
SearchExportSpec == Init /\ [][SearchExportNext]_vars

(***************************************************************************)
(* The comparison of the search on its own, over numbers around 1.0 and    *)
(* 0.0, strs and vectors.                                                  *)
(***************************************************************************)
CompareValues ==
    {Num(0), Flt(0, 500), Num(1), Flt(1, 5), Flt(1, 500), Str("x"), Str("y"),
     Vec(1, 1, 1), Arr(<<Num(1), Flt(1, 500), Num(1)>>)}
CompareOperators == ComparisonTypes \cup {"_", "!=", ""}
CompareNext ==
    \E x \in CompareValues, y \in CompareValues, comp_type \in CompareOperators :
        CompareCall(x, y, comp_type)
CompareSpec == Init /\ [][CompareNext]_vars

(***************************************************************************)
(* One EntityProperty on its own: EntityDefinition.add makes a new         *)
(* property and calls init on it; the value setter is then called on it.   *)
(***************************************************************************)
EnumOptions == <<Str("x"), Str("y")>>
\* the types of the match statement of init, and types it does not name
GodotTypes ==
    {"bool", "int", "float", "Vector3", "Vector3i", "Vector2", "Vector2i", "enum",
     "String", "Color"}
PropertyValues ==
    {Num(0), Num(1), Str("s0"), Str("x"), Str("y"), Vec(0, 0, 0), Vec(1, 0, 0)}

PropertyInitEnd(r, type, value) ==
    /\ entity_property' = [p |-> r.p, op |-> "init", type |-> type, arg |-> value,
                           raised |-> r.err]
    /\ last' = Op("init_property", IF r.err THEN "RAISED" ELSE "", 0, type)
    /\ UNCHANGED <<m_template, m_template_str, objects, active, loaded, names, btg_file,
                   compared, downgraded>>
\* EntityDefinition.add
PropertyAdd(type, value) ==
    PropertyInitEnd(PropInit(NewProperty, "var", value, type, "", Arr(EnumOptions)),
                    type, value)

PropertySetEnd(r, val) ==
    /\ entity_property' = [entity_property EXCEPT !.p = r.p, !.op = "set", !.arg = val,
                                                  !.raised = r.err]
    /\ last' = Op("set_property", IF r.err THEN "RAISED" ELSE "", 0, "")
    /\ UNCHANGED <<m_template, m_template_str, objects, active, loaded, names, btg_file,
                   compared, downgraded>>
\* property.value = val, on a property init has built
PropertySet(val) ==
    /\ entity_property.op # "add"
    /\ ~(entity_property.op = "init" /\ entity_property.raised)
    /\ PropertySetEnd(SetValue(entity_property.p, val), val)

PropertyNext ==
    \/ \E type \in GodotTypes, value \in PropertyValues : PropertyAdd(type, value)
    \/ \E val \in PropertyValues : PropertySet(val)
PropertySpec == Init /\ [][PropertyNext]_vars

(***************************************************************************)
(* Vocabulary of the properties.                                           *)
(***************************************************************************)
\* the class the object was last given, which class_name_backup keeps by name
Tagged(o, c) == o.class_name_backup = c
RealClasses == {"A", "B"}
\* the variables of class c in a template, as <<name, definition>> pairs
Variables(tmpl, c) ==
    IF HasKey(tmpl, c) /\ IsObj(Get(tmpl, c)) /\ HasKey(Get(tmpl, c), "variables")
    THEN Get(Get(tmpl, c), "variables").a ELSE <<>>
Declares(tmpl, c, v, t) ==
    \E k \in 1..Len(Variables(tmpl, c)) :
        /\ Variables(tmpl, c)[k][1] = v
        /\ Get(Variables(tmpl, c)[k][2], "type").s = t
DefaultOf(tmpl, c, v) ==
    Get((CHOOSE pair \in {Variables(tmpl, c)[k] : k \in 1..Len(Variables(tmpl, c))} :
             pair[1] = v)[2], "default")
\* the object holds a property v of declared type t with value x
Holds(o, v, t, x) ==
    \E j \in 1..Len(o.class_definition) :
        /\ o.class_definition[j].name = v
        /\ o.class_definition[j].godot_type = t
        /\ ~ValueRaises(o.class_definition[j])
        /\ PropValue(o.class_definition[j]) = x
HeldTriples(o) ==
    {<<o.class_definition[j].name, o.class_definition[j].godot_type,
       PropValue(o.class_definition[j])>> :
         j \in {j \in 1..Len(o.class_definition) : ~ValueRaises(o.class_definition[j])}}
ReloadFinished == last'.op = "read" /\ last'.result = "FINISHED"

(***************************************************************************)
(* C1.  Reconciliation preserves matching fields: an object tagged C that  *)
(* holds v of type t with value x still holds v = x after a finished       *)
(* reload in which C exists and declares v with type t.                    *)
(***************************************************************************)
C1_PreservesMatching ==
    [][ReloadFinished =>
          \A i \in ObjectIds, c \in RealClasses :
              Tagged(objects[i], c) =>
                  \A h \in HeldTriples(objects[i]) :
                      Declares(m_template', c, h[1], h[2]) =>
                          Holds(objects'[i], h[1], h[2], h[3])]_vars

(***************************************************************************)
(* C2.  Reconciliation drops type-mismatched fields: when the reloaded     *)
(* template declares v of class C with a type other than the one the       *)
(* object holds, the object's v afterwards has the new type and the new    *)
(* default.                                                                *)
(***************************************************************************)
NewType(tmpl, c, v) ==
    Get((CHOOSE pair \in {Variables(tmpl, c)[k] : k \in 1..Len(Variables(tmpl, c))} :
             pair[1] = v)[2], "type").s
DeclaresName(tmpl, c, v) ==
    \E k \in 1..Len(Variables(tmpl, c)) : Variables(tmpl, c)[k][1] = v
C2_DropsMismatched ==
    [][ReloadFinished =>
          \A i \in ObjectIds, c \in RealClasses :
              Tagged(objects[i], c) =>
                  \A h \in HeldTriples(objects[i]) :
                      (DeclaresName(m_template', c, h[1]) /\ ~Declares(m_template', c, h[1], h[2]))
                          => Holds(objects'[i], h[1], NewType(m_template', c, h[1]),
                                   DefaultOf(m_template', c, h[1]))]_vars

(***************************************************************************)
(* C3.  Class removal: after a finished reload from which class C is       *)
(* absent, every object that was tagged C has class "None" and no          *)
(* properties.                                                             *)
(***************************************************************************)
C3_ClassRemoval ==
    [][ReloadFinished =>
          \A i \in ObjectIds, c \in RealClasses :
              (Tagged(objects[i], c) /\ ~HasKey(m_template', c))
                  => /\ ClassName(objects'[i], m_template') = "None"
                     /\ objects'[i].class_definition = <<>>]_vars

C3_Witness ==
    /\ last.op = "read" /\ last.result = "FINISHED"
    /\ \E i \in last.removed :
           /\ ClassName(objects[i], m_template) = "None"
           /\ objects[i].class_definition = <<>>

(***************************************************************************)
(* C4.  Class reassignment resets: giving an object a class B other than   *)
(* the one it has leaves it with exactly B's variables, in order, each at  *)
(* B's default.                                                            *)
(***************************************************************************)
\* <<name, type, default>> of every variable of class c
SchemaDefaults(tmpl, c) ==
    [k \in 1..Len(Variables(tmpl, c)) |->
        <<Variables(tmpl, c)[k][1], Get(Variables(tmpl, c)[k][2], "type").s,
          Get(Variables(tmpl, c)[k][2], "default")>>]
\* <<name, type, stored value>> of every property, read from the slot of its type
StoredValues(o) ==
    [j \in 1..Len(o.class_definition) |->
        <<o.class_definition[j].name, o.class_definition[j].godot_type,
          GetSlot(o.class_definition[j], SlotOfType(o.class_definition[j].godot_type))>>]
C4_ReassignResets ==
    [][\A i \in ObjectIds, b \in ClassNames :
          (/\ last'.op = "set_class" /\ last'.obj = i /\ last'.arg = b
           /\ ClassName(objects[i], m_template) # b)
              => StoredValues(objects'[i]) = SchemaDefaults(m_template, b)]_vars

(***************************************************************************)
(* C5.  After a search that ran to its end, in either mode and from any    *)
(* prior selection, an object is selected if and only if it satisfies the  *)
(* predicate of the search.                                                *)
(***************************************************************************)
C5_SelectionIsPredicate ==
    (last.op = "search" /\ last.result = "FINISHED")
        => SelectedObjects(objects) = last.matching

(***************************************************************************)
(* C6.  A reload of a template that parsed finishes with a reported        *)
(* outcome: no failure of the reconciliation of an object escapes the      *)
(* operation.                                                              *)
(***************************************************************************)
C6_ReloadNeverRaises ==
    last.op = "read" => last.result \in {"FINISHED", "CANCELLED"}

(***************************************************************************)
(* C7.  A load that fails is cancelled with the template, its snapshot     *)
(* string and every object's class, class backup and properties as they    *)
(* were before.                                                            *)
(***************************************************************************)
C7_FailedLoadUntouched ==
    [][(last'.op = "read" /\ last'.result = "CANCELLED")
          => UNCHANGED <<m_template, m_template_str, objects>>]_vars

\* a load was cancelled while a template with classes was loaded and an
\* object held properties
C7_Witness ==
    /\ last.op = "read" /\ last.result = "CANCELLED"
    /\ HasKey(m_template, "A")
    /\ \E i \in ObjectIds : objects[i].class_definition # <<>>

(***************************************************************************)
(* C8.  In every state the first key of the template is "None".            *)
(***************************************************************************)
C8_NoneIsFirstKey ==
    /\ Len(Keys(m_template)) > 0
    /\ Keys(m_template)[1] = "None"

(***************************************************************************)
(* C9.  In every state the template has the key "None", and enumerating    *)
(* the variables of class "None" yields the empty sequence.                *)
(***************************************************************************)
C9_NoneHasNoVariables ==
    /\ HasKey(m_template, "None")
    /\ ~get_variable_search_list(m_template, "None").raised
    /\ get_variable_search_list(m_template, "None").keys = <<>>

(***************************************************************************)
(* C10.  Restoring the template from the snapshot string that reset wrote  *)
(* yields the same class keys in the same order, with the same variable    *)
(* keys, types and defaults.                                               *)
(***************************************************************************)
\* the variables of class c as <<name, type, default>> triples
VariableSchema(tmpl, c) ==
    [k \in 1..Len(Variables(tmpl, c)) |->
        <<Variables(tmpl, c)[k][1],
          GetOr(Variables(tmpl, c)[k][2], "type", Str("")),
          GetOr(Variables(tmpl, c)[k][2], "default", Str(""))>>]
SameSchema(t1, t2) ==
    /\ Keys(t1) = Keys(t2)
    /\ \A k \in 1..Len(Keys(t1)) :
           VariableSchema(t1, Keys(t1)[k]) = VariableSchema(t2, Keys(t1)[k])

C10_SnapshotRoundTrip ==
    [][(last'.op = "load_template" /\ last.op = "read" /\ last.result # "CANCELLED")
          => SameSchema(m_template', m_template)]_vars

\* the template was restored from the snapshot of a template with variables
C10_Witness ==
    /\ last.op = "load_template"
    /\ HasKey(m_template, "A") /\ HasKey(m_template, "B")
    /\ Variables(m_template, "A") # <<>>

(***************************************************************************)
(* C11.  After a restart the next thing that runs is the restore of the    *)
(* template from its snapshot string, before any read, class assignment or *)
(* edit, and the restored template equals the template of the last         *)
(* successful read.                                                        *)
(***************************************************************************)
C11_RestoredAfterRestart ==
    [][last.op = "restart"
          => (last'.op = "load_template" /\ SameSchema(m_template', loaded))]_vars

(***************************************************************************)
(* C12.  An export that is not cancelled leaves a document with, for every *)
(* object whose class is not "None", an entry keyed by the object's name   *)
(* with every '.' replaced by '_', holding the object's class, the uid of  *)
(* that class and one {type, value} entry per property; objects of class   *)
(* "None" have no entry.                                                   *)
(***************************************************************************)
ExportKey(i) == str_replace(names[i], ".", "_")
\* the entry says what object i is in the state
EntryOf(entry, i) ==
    /\ Get(entry, "class") = Str(ClassName(objects[i], m_template))
    /\ Get(entry, "uid") = GetOr(Get(m_template, ClassName(objects[i], m_template)),
                                 "uid", Str(""))
    /\ Len(Get(entry, "variables").a) = Len(objects[i].class_definition)
    /\ \A j \in 1..Len(objects[i].class_definition) :
           /\ HasKey(Get(entry, "variables"), StoredValues(objects[i])[j][1])
           /\ Get(Get(entry, "variables"), StoredValues(objects[i])[j][1])
                  = Obj(<<<<"type", Str(StoredValues(objects[i])[j][2])>>,
                          <<"value", StoredValues(objects[i])[j][3]>>>>)
ExportShape(doc) ==
    /\ \A i \in ObjectIds :
           ClassName(objects[i], m_template) # "None"
               => /\ HasKey(m_template, ClassName(objects[i], m_template))
                  /\ HasKey(doc, ExportKey(i))
                  /\ EntryOf(Get(doc, ExportKey(i)), i)
    /\ \A k \in 1..Len(doc.a) :
           \E i \in ObjectIds : /\ ClassName(objects[i], m_template) # "None"
                                /\ ExportKey(i) = doc.a[k][1]

C12_ExportShape ==
    [][(last'.op = "write" /\ last'.result # "CANCELLED")
          => (last'.result = "FINISHED" /\ ExportShape(Loads(btg_file')))]_vars

(***************************************************************************)
(* C13.  An export leaves the target file either with its complete         *)
(* previous text or with the complete new document, also when the write    *)
(* fails.                                                                  *)
(***************************************************************************)
C13_WriteAllOrNothing ==
    [][last'.op = "write"
          => \/ btg_file' = btg_file
             \/ btg_file' = Dumps(BuildExport(objects, names, m_template, 1, Obj(<<>>)))]_vars


\* the elements of the two compared values are all within 1e-8 of each other
WithinDelta(x, y) ==
    \A i \in 1..Width(x, y) :
        Abs(Elements(x, Width(x, y))[i] - Elements(y, Width(x, y))[i]) <= DeltaNano

\* C14: "==" on numbers and vectors is true exactly when every element is
\* within the absolute tolerance 1e-8, whatever the magnitude of y (so
\* compare(1.0 + 5e-9, 1.0, "==") is true and compare(1.0 + 5e-7, 1.0, "==")
\* is false); on strs it is exact equality.
C14_AbsoluteTolerance ==
    (last.op = "compare" /\ compared.comp_type = "==")
        => IF IsStr(compared.x) \/ IsStr(compared.y)
           THEN (compared.result = "True") <=> (compared.x = compared.y)
           ELSE (compared.result = "True") <=> WithinDelta(compared.x, compared.y)

\* C15: an operator outside <, <=, ==, >, >= gives what "==" gives on the
\* same two values.
C15_UnknownOperatorIsEquality ==
    (last.op = "compare" /\ compared.comp_type \notin ComparisonTypes)
        => compared.result = CompareReturns(compared.x, compared.y, "==")


\* C16: a search by variable value with an empty variable name is rejected
\* with a warning for every target class, "None" included, and leaves the
\* selection, the active object and all other state as they were.
C16_EmptyVariableRejected ==
    [][(\E c \in SearchClasses :
            /\ c \in {Keys(m_template)[i] : i \in 1..Len(Keys(m_template))} \cup {""}
            /\ SelectionPopup_execute(c, "var_val", "", Num(0), "=="))
          => /\ last'.result = "CANCELLED"
             /\ last'.arg = "No search variable selected."
             /\ UNCHANGED <<m_template, m_template_str, objects, active>>]_vars


\* C17: a search that ran to its end reports "No objects found." exactly when
\* no object satisfies the predicate of the search, whatever was selected
\* before, and reports "Objects selected!" otherwise.
C17_NoMatchReport ==
    (last.op = "search" /\ last.result = "FINISHED")
        => /\ last.arg \in {"No objects found.", "Objects selected!"}
           /\ (last.arg = "No objects found.") <=> (last.matching = {})


\* the types the match statement of init names
KnownTypes == {"bool", "int", "float", "Vector3", "Vector3i", "Vector2", "Vector2i", "enum"}

\* C18: after init with a type and a value of that type, the tag names an
\* existing payload slot (for an enum too) and get() returns what the slot
\* init wrote holds; after set(v) with a value of that type, get() returns v.
C18_UniformAccess ==
    /\ (entity_property.op = "init" /\ ~entity_property.raised)
           => /\ entity_property.p.m_type \in PayloadSlots
              /\ entity_property.p.m_type = SlotOfType(entity_property.type)
              /\ PropValue(entity_property.p) = entity_property.arg
    /\ (/\ entity_property.op = "set"
        /\ SlotAccepts(entity_property.p, SlotOfType(entity_property.type),
                       entity_property.arg))
           => /\ ~entity_property.raised
              /\ entity_property.p.m_type \in PayloadSlots
              /\ PropValue(entity_property.p) = entity_property.arg

\* C20: init with a type string the match statement does not name never
\* fails and gives a property tagged String that holds the given value and
\* keeps the declared type string.
C20_UnknownTypeIsString ==
    (entity_property.op = "init" /\ entity_property.type \notin KnownTypes)
        => /\ ~entity_property.raised
           /\ entity_property.p.m_type = PropTypes_STRING
           /\ PropValue(entity_property.p) = entity_property.arg
           /\ entity_property.p.godot_type = entity_property.type


\* every variable of class c has a type and a default, and one has no description
OmitsDescription(tmpl, c) ==
    /\ \A k \in 1..Len(Variables(tmpl, c)) :
           /\ IsObj(Variables(tmpl, c)[k][2])
           /\ HasKey(Variables(tmpl, c)[k][2], "type")
           /\ HasKey(Variables(tmpl, c)[k][2], "default")
    /\ \E k \in 1..Len(Variables(tmpl, c)) :
           ~HasKey(Variables(tmpl, c)[k][2], "description")

\* C19: giving an object a class whose variable definition has a type and a
\* default but no description does not fail and builds every property of the
\* class, the one without description with an empty description: the object
\* is never left with part of the property set.
C19_OptionalDescription ==
    [][\A i \in ObjectIds, b \in ClassNames :
          (/\ last'.op = "set_class" /\ last'.obj = i /\ last'.arg = b
           /\ OmitsDescription(m_template, b))
              => /\ last'.result = ""
                 /\ Len(objects'[i].class_definition) = Len(Variables(m_template, b))
                 /\ \A k \in 1..Len(objects'[i].class_definition) :
                        objects'[i].class_definition[k].description =
                            GetOr(Variables(m_template, b)[k][2], "description", Str("")).s]_vars


\* the keys of a template, as a set
KeySet(tmpl) == {Keys(tmpl)[k] : k \in 1..Len(Keys(tmpl))}

\* C21: in every reachable state the class every object reads as is "None"
\* or a key of the current template.
C21_ClassTagValid ==
    \A i \in ObjectIds :
        ClassName(objects[i], m_template) \in {"None"} \cup KeySet(m_template)


\* <<name, declared type>> of every property of the object, in order
PropertySchema(o) ==
    [j \in 1..Len(o.class_definition) |->
        <<o.class_definition[j].name, o.class_definition[j].godot_type>>]
\* <<name, type>> of every variable of class c, in the template's order
ClassSchema(tmpl, c) ==
    [k \in 1..Len(Variables(tmpl, c)) |->
        <<Variables(tmpl, c)[k][1], Get(Variables(tmpl, c)[k][2], "type").s>>]

\* C22: after every finished reload and every class reassignment, an object
\* whose class C is not "None" has the properties class C declares in the
\* current template, by name and type and in the declared order, and a
\* variable the object did not have before is at its default.
C22_SchemaConsistency ==
    [][(ReloadFinished \/ last'.op = "set_class")
          => \A i \in ObjectIds :
                 ClassName(objects'[i], m_template') \in RealClasses
                     => /\ PropertySchema(objects'[i]) =
                               ClassSchema(m_template', ClassName(objects'[i], m_template'))
                        /\ \A k \in 1..Len(objects'[i].class_definition) :
                               ~InProperties(objects[i].class_definition,
                                             objects'[i].class_definition[k].name)
                                   => StoredValues(objects'[i])[k] =
                                          SchemaDefaults(m_template',
                                              ClassName(objects'[i], m_template'))[k]]_vars


C24_NoneHasNoProperties ==
    \A i \in ObjectIds :
        ClassName(objects[i], m_template) = "None" => objects[i].class_definition = <<>>

\* the user gave an object that held properties the class "None"
C24_Witness ==
    /\ last.op = "set_class" /\ last.arg = "None"
    /\ last.obj \in last.cleared
    /\ ClassName(objects[last.obj], m_template) = "None"
    /\ objects[last.obj].class_definition = <<>>


\* the options class c of a template declares for its enum variable v
OptionsOf(tmpl, c, v) ==
    {StrOf(o) : o \in {GetOr((CHOOSE pair \in {Variables(tmpl, c)[k] :
                                                   k \in 1..Len(Variables(tmpl, c))} :
                                  pair[1] = v)[2], "options", Arr(<<>>)).a[n] :
                          n \in 1..Len(GetOr((CHOOSE pair \in {Variables(tmpl, c)[k] :
                                                   k \in 1..Len(Variables(tmpl, c))} :
                                  pair[1] = v)[2], "options", Arr(<<>>)).a)}}
\* the identifier the slot m_enum of a property reads as
EnumValue(p) == GetSlot(p, "m_enum").s

\* C25: in every reachable state the value of every enum property is one of
\* the options the property carries, and one of the options the current
\* template declares for that variable of the object's class: a selection
\* the reloaded template no longer allows is not kept.
C25_EnumValid ==
    \A i \in ObjectIds : \A j \in 1..Len(objects[i].class_definition) :
        objects[i].class_definition[j].godot_type = "enum"
            => /\ \E n \in 1..Len(get_enum_items(objects[i].class_definition[j])) :
                      get_enum_items(objects[i].class_definition[j])[n] =
                          EnumValue(objects[i].class_definition[j])
               /\ Declares(m_template, ClassName(objects[i], m_template),
                           objects[i].class_definition[j].name, "enum")
                      => EnumValue(objects[i].class_definition[j]) \in
                             OptionsOf(m_template, ClassName(objects[i], m_template),
                                       objects[i].class_definition[j].name)


\* C26: a finished export holds as many entries as there are objects whose
\* class is not "None"; two objects whose names differ only by "." against
\* "_" both have an entry.
C26_ExportLosesNoObject ==
    [][(last'.op = "write" /\ last'.result = "FINISHED")
          => Len(Loads(btg_file').a) =
                 Cardinality({i \in ObjectIds : ClassName(objects[i], m_template) # "None"})]_vars


\* C27: a finished reload of a template identical to the current one leaves
\* the class, the class backup, the property sequence and the property
\* values of every object as they were; so a second reload of the same
\* template in a row changes nothing.
C27_ReloadIdempotent ==
    [][(ReloadFinished /\ m_template' = m_template) => objects' = objects]_vars


\* C28: a class reassignment or a property edit of one object leaves every
\* other object, the template and its snapshot as they were; a template
\* reload leaves every object of class "None" as it was.
C28_ObjectIsolation ==
    [][/\ last'.op \in {"set_class", "set_value"}
             => /\ \A k \in ObjectIds \ {last'.obj} : objects'[k] = objects[k]
                /\ m_template' = m_template
                /\ m_template_str' = m_template_str
       /\ last'.op = "read"
             => \A i \in ObjectIds :
                    ClassName(objects[i], m_template) = "None"
                        => objects'[i] = objects[i]]_vars

\* a property of one object was edited while another object of the same
\* class holds other values
C28_Witness ==
    /\ last.op = "set_value"
    /\ \E k \in ObjectIds \ {last.obj} :
           /\ objects[k].class_name_backup = objects[last.obj].class_name_backup
           /\ objects[k].class_name = objects[last.obj].class_name
           /\ PropertySchema(objects[k]) = PropertySchema(objects[last.obj])
           /\ objects[k].class_definition # objects[last.obj].class_definition


\* C29: an object a reload took a removed class from stays without class
\* and without properties until the user gives it a class: neither the old
\* class nor the old values come back, also when a later reload brings a
\* template that has the class again.
C29_RemovalIsPermanent ==
    \A i \in ObjectIds :
        downgraded[i] # ""
            => /\ ClassName(objects[i], m_template) \notin RealClasses
               /\ objects[i].class_name_backup = "None"
               /\ objects[i].class_definition = <<>>

\* a later reload finished with a template that has the removed class again,
\* and the object reads as "None"
C29_Witness ==
    /\ last.op = "read" /\ last.result = "FINISHED"
    /\ \E i \in ObjectIds \ last.removed :
           /\ downgraded[i] # ""
           /\ HasKey(m_template, downgraded[i])
           /\ ClassName(objects[i], m_template) = "None"
           /\ objects[i].class_definition = <<>>


\* what an object holds of the schema: class, class backup and properties
SchemaData(o) == <<o.class_name, o.class_name_backup, o.class_definition>>

\* C30: a search, accepted or rejected, and an export, finished or failed,
\* change neither the template, its snapshot, nor the class, class backup
\* and properties of any object; a search changes at most selection flags
\* and the active object, an export at most the target file.
C30_SearchAndExportReadOnly ==
    [][/\ last'.op \in {"search", "write"}
             => /\ m_template' = m_template
                /\ m_template_str' = m_template_str
                /\ names' = names
                /\ \A i \in ObjectIds : SchemaData(objects'[i]) = SchemaData(objects[i])
       /\ last'.op = "search" => btg_file' = btg_file
       /\ last'.op = "write" => (objects' = objects /\ active' = active)]_vars

\* a search selected an object that holds properties, in a scene that was
\* exported before
C30_Witness ==
    /\ last.op = "search" /\ last.result = "FINISHED"
    /\ \E i \in last.matching :
           objects[i].selected /\ objects[i].class_definition # <<>>
    /\ btg_file # <<>>

====
